---- MODULE Spec2Model ----
(***************************************************************************)
(* Recursive Gaussian blur of tools/gauss_blur.cc: the horizontal kernel   *)
(* FastGaussian1D, the vertical kernel FastGaussianVertical /              *)
(* VerticalStrip / VerticalBlock and the orchestrator FastGaussian.        *)
(* Floats are modelled by integers (exact arithmetic); the filter          *)
(* coefficients n2, d1 are small integers and the 4-way expansions         *)
(* mul_in, mul_prev, mul_prev2 are computed from them by the formulas of   *)
(* CreateRecursiveGaussian.                                                *)
(***************************************************************************)
EXTENDS Integers, Sequences, FiniteSets, TLC

VARIABLES
  rg,        \* RecursiveGaussian: radius, n2, d1, mul_in, mul_prev, mul_prev2
  lanes,     \* Lanes(HWY_FULL(float)) of the compiled target
  xsize,     \* number of columns (row length)
  ysize,     \* number of rows
  h_in,      \* FastGaussian1D: the input row
  hs,        \* FastGaussian1D: locals n, prev, prev2, the output row, access logs
  h_pc,      \* FastGaussian1D: position (left / interior / right / done)
  temp,      \* the plane FastGaussianVertical reads through its accessor in
  vs,        \* FastGaussianVertical: locals, scratch memory, output plane, logs
  inp,       \* FastGaussian: the input plane behind its accessor in
  task,      \* the pool's row tasks: pending / running / done
  b_pc,      \* FastGaussian: position
  foot       \* per task index: times run, addresses read and written

hvars == <<h_in, hs, h_pc>>
cfgvars == <<rg, lanes, xsize, ysize>>
vvars == <<temp, vs>>
pvars == <<inp, task, b_pc, foot>>
vars == <<rg, lanes, xsize, ysize, h_in, hs, h_pc, temp, vs, inp, task, b_pc, foot>>

----------------------------------------------------------------------------
(* Bounds of the model *)

MaxRadius == 2
MaxRowLen == 8
MaxXsize == 65      \* widest plane of the column-strip runs
MaxYsize == 11      \* tallest plane of the row-loop runs
MaxWeight == 1      \* non-zero samples in a data column / an input plane
MaxBlurCols == 2    \* widest plane of the FastGaussian runs
MaxBlurRows == 2    \* tallest plane of the FastGaussian runs
NumThreads == 2     \* worker threads of the pool
SizeBits == 16      \* width of size_t / ssize_t

(* Program constants *)

JXL_GAUSS_MAX_LANES == 4
kRingBufferLen == 4
kRingBufferMask == kRingBufferLen - 1
kPrefetchRows == 8
SizeofFloat == 4
kCacheLineLanes == 64 \div SizeofFloat

Modes == 0 .. 2         \* i = 0, 1, 2 for the modes k = 1, 3, 5
SampleValues == {0, 1}  \* pixel values drawn for the inputs

Min(a, b) == IF a < b THEN a ELSE b
Max(a, b) == IF a > b THEN a ELSE b
RoundUpTo(what, align) == ((what + align - 1) \div align) * align

----------------------------------------------------------------------------
(* CreateRecursiveGaussian, lines 488-522: from the per-mode n2[i], d1[i]  *)
(* the flat coefficient arrays indexed 4 * i + lane.                       *)

MulPrev(d, lane) ==
  CASE lane = 0 -> -d
    [] lane = 1 -> d * d - 1
    [] lane = 2 -> -(d * d) * d + 2 * d
    [] lane = 3 -> (d * d) * (d * d) - 3 * (d * d) + 1

MulPrev2(d, lane) ==
  CASE lane = 0 -> -1
    [] lane = 1 -> d
    [] lane = 2 -> -(d * d) + 1
    [] lane = 3 -> (d * d) * d - 2 * d

\* mutant: the i0 term of the third output loses its "- n"
MulIn_Lane2(n, d, lane) ==
  CASE lane = 0 -> n
    [] lane = 1 -> -d * n
    [] lane = 2 -> (d * d) * n
    [] lane = 3 -> -(d * d) * d * n + 2 * d * n

MulIn(n, d, lane) ==
  CASE lane = 0 -> n
    [] lane = 1 -> -d * n
    [] lane = 2 -> (d * d) * n - n
    [] lane = 3 -> -(d * d) * d * n + 2 * d * n

CreateRecursiveGaussian(radius, n2, d1) ==
  [radius    |-> radius,
   n2        |-> [f \in 0 .. 11 |-> n2[f \div 4]],
   d1        |-> [f \in 0 .. 11 |-> d1[f \div 4]],
   mul_prev  |-> [f \in 0 .. 11 |-> MulPrev(d1[f \div 4], f % 4)],
   mul_prev2 |-> [f \in 0 .. 11 |-> MulPrev2(d1[f \div 4], f % 4)],
   mul_in    |-> [f \in 0 .. 11 |-> MulIn(n2[f \div 4], d1[f \div 4], f % 4)]]

(* The (n2, d1) triples the model draws: d1 = -2 cos(omega) lies in (-2, 2) *)
Coefficients ==
  { << <<1, 2, 1>>, <<-1, 1, 0>> >>,
    << <<2, -1, 1>>, <<1, 0, -1>> >> }

Designs ==
  { CreateRecursiveGaussian(r, c[1], c[2]) :
      r \in 1 .. MaxRadius,
      c \in { << [i \in Modes |-> p[1][i + 1]], [i \in Modes |-> p[2][i + 1]] >> :
                p \in Coefficients } }

----------------------------------------------------------------------------
(* Highway vector operations used by the kernels; a vector of nl lanes is  *)
(* a function on 0 .. nl-1.                                                *)

\* Vec(f): the vector f with its lanes evaluated once (TLC would otherwise
\* re-evaluate a function expression at every use)
Vec(f) == f @@ <<>>

Zero(nl) == Vec([j \in 0 .. nl - 1 |-> 0])
Set(nl, v) == Vec([j \in 0 .. nl - 1 |-> v])
Load(nl, arr, off) == Vec([j \in 0 .. nl - 1 |-> arr[off + j]])
Add(a, b) == Vec([j \in DOMAIN a |-> a[j] + b[j]])
Mul(a, b) == Vec([j \in DOMAIN a |-> a[j] * b[j]])
MulAdd(mul, x, add) == Vec([j \in DOMAIN mul |-> mul[j] * x[j] + add[j]])
NegMulSub(mul, x, sub) == Vec([j \in DOMAIN mul |-> -(mul[j] * x[j]) - sub[j]])
Broadcast(kLane, v) == Vec([j \in DOMAIN v |-> v[kLane]])
ShiftLeftLanes(k, v) == Vec([j \in DOMAIN v |-> IF j >= k THEN v[j - k] ELSE 0])
GetLane(v) == v[0]

----------------------------------------------------------------------------
(* FastGaussian1D, lines 46-207.  hl = Lanes(HWY_CAPPED(float, 4)).        *)
(* The locals are a record s: n, prev and prev2 (one vector per mode), out *)
(* (index -> value, the indices stored so far), rd (the input indices      *)
(* read) and wr (the output indices stored, in order).                     *)

HLanes(nl) == Min(nl, JXL_GAUSS_MAX_LANES)

\* a read of in[i]; an index outside the row is logged and reads as 0
InAt(in, i) == IF i \in DOMAIN in THEN in[i] ELSE 0
LoadU(hl, in, off) == Vec([j \in 0 .. hl - 1 |-> InAt(in, off + j)])

H_Init(hl) ==
  [n     |-> 0,
   prev  |-> [i \in Modes |-> Zero(hl)],
   prev2 |-> [i \in Modes |-> Zero(hl)],
   out   |-> <<>>,
   rd    |-> {},
   wr    |-> <<>>]

\* line 74
H_Enter(g, hl) == [H_Init(hl) EXCEPT !.n = -g.radius + 1]

\* line 76
FirstAligned(g, hl) == RoundUpTo(g.radius + 1, hl)

\* lines 78-101 and 180-203: one bounds-checked step, without its store
CheckedStep(g, hl, xs, in, s) ==
  LET N == g.radius
      left == s.n - N - 1
      right == s.n + N - 1
      left_val == IF left >= 0 THEN InAt(in, left) ELSE 0
      right_val == IF right < xs THEN InAt(in, right) ELSE 0
      sum == Set(hl, left_val + right_val)
      o(i) == MulAdd(Load(hl, g.mul_prev, 4 * i), s.prev[i],
                MulAdd(Load(hl, g.mul_prev2, 4 * i), s.prev2[i],
                  Mul(sum, Load(hl, g.mul_in, 4 * i))))
  IN [s EXCEPT !.prev2 = s.prev,
               !.prev = Vec([i \in Modes |-> o(i)]),
               !.rd = s.rd \cup (IF left >= 0 THEN {left} ELSE {})
                           \cup (IF right < xs THEN {right} ELSE {})]

StoreOut(s, idx, v) ==
  [s EXCEPT !.out = (idx :> v) @@ s.out, !.wr = Append(s.wr, idx)]

SumModes(p) == Add(p[0], Add(p[1], p[2]))

\* lines 77-106
LeftCond(g, hl, xs, s) == s.n < Min(FirstAligned(g, hl), xs)

LeftBody(g, hl, xs, in, s) ==
  LET t == CheckedStep(g, hl, xs, in, s)
      u == IF s.n >= 0 THEN StoreOut(t, s.n, GetLane(SumModes(t.prev))) ELSE t
  IN [u EXCEPT !.n = s.n + 1]

\* lines 110-117
BroadcastPrev(hl, s) ==
  IF hl > 1
    THEN [s EXCEPT !.prev = Vec([i \in Modes |-> Broadcast(0, s.prev[i])]),
                   !.prev2 = Vec([i \in Modes |-> Broadcast(0, s.prev2[i])])]
    ELSE s

\* mutant: the unrolled loop without its margin of JXL_GAUSS_MAX_LANES - 1
InteriorCond_NoMargin(g, xs, s) == s.n < xs - g.radius + 1

\* lines 120-176
InteriorCond(g, xs, s) == s.n < xs - g.radius + 1 - (JXL_GAUSS_MAX_LANES - 1)

InteriorBody(g, hl, xs, in, s) ==
  LET N == g.radius
      sum == Add(LoadU(hl, in, s.n - N - 1), LoadU(hl, in, s.n + N - 1))
      mi(i) == Load(hl, g.mul_in, 4 * i)
      o0(i) == Mul(Broadcast(0, sum), mi(i))
      o3(i) ==
        IF hl > 1
          THEN MulAdd(ShiftLeftLanes(3, mi(i)), Broadcast(3, sum),
                 MulAdd(ShiftLeftLanes(2, mi(i)), Broadcast(2, sum),
                   MulAdd(ShiftLeftLanes(1, mi(i)), Broadcast(1, sum), o0(i))))
          ELSE o0(i)
      o == Vec([i \in Modes |->
                  MulAdd(Load(hl, g.mul_prev, 4 * i), s.prev[i],
                    MulAdd(Load(hl, g.mul_prev2, 4 * i), s.prev2[i], o3(i)))])
      res == SumModes(o)
      stored == [idx \in s.n .. s.n + hl - 1 |-> res[idx - s.n]]
  IN [n     |-> s.n + hl,
      prev  |-> IF hl > 1
                  THEN Vec([i \in Modes |-> Broadcast(JXL_GAUSS_MAX_LANES - 1, o[i])])
                  ELSE o,
      prev2 |-> IF hl > 1
                  THEN Vec([i \in Modes |-> Broadcast(JXL_GAUSS_MAX_LANES - 2, o[i])])
                  ELSE s.prev,
      out   |-> stored @@ s.out,
      rd    |-> s.rd \cup { s.n - N - 1 + j : j \in 0 .. hl - 1 }
                     \cup { s.n + N - 1 + j : j \in 0 .. hl - 1 },
      wr    |-> s.wr \o [j \in 1 .. hl |-> s.n + j - 1]]

\* lines 179-206
RightCond(xs, s) == s.n < xs

RightBody(g, hl, xs, in, s) ==
  LET t == CheckedStep(g, hl, xs, in, s)
      u == StoreOut(t, s.n, GetLane(SumModes(t.prev)))
  IN [u EXCEPT !.n = s.n + 1]

RECURSIVE LeftLoop(_, _, _, _, _)
LeftLoop(g, hl, xs, in, s) ==
  IF LeftCond(g, hl, xs, s) THEN LeftLoop(g, hl, xs, in, LeftBody(g, hl, xs, in, s))
                            ELSE s

RECURSIVE InteriorLoop(_, _, _, _, _)
InteriorLoop(g, hl, xs, in, s) ==
  IF InteriorCond(g, xs, s)
    THEN InteriorLoop(g, hl, xs, in, InteriorBody(g, hl, xs, in, s))
    ELSE s

RECURSIVE RightLoop(_, _, _, _, _)
RightLoop(g, hl, xs, in, s) ==
  IF RightCond(xs, s) THEN RightLoop(g, hl, xs, in, RightBody(g, hl, xs, in, s))
                      ELSE s

\* the whole call: the final locals, .out being the output row
FastGaussian1D(g, hl, xs, in) ==
  RightLoop(g, hl, xs, in,
    InteriorLoop(g, hl, xs, in,
      BroadcastPrev(hl, LeftLoop(g, hl, xs, in, H_Enter(g, hl)))))

----------------------------------------------------------------------------
(* size_t / ssize_t arithmetic of VerticalStrip *)

SizeT(v) == v % (2 ^ SizeBits)
SSizeT(u) == IF u >= 2 ^ (SizeBits - 1) THEN u - 2 ^ SizeBits ELSE u
\* u & mask for a mask of the form 2^k - 1
BitAnd(u, mask) == u % (mask + 1)

----------------------------------------------------------------------------
(* Memory of the vertical pass.  A row of a plane is stored padded to a    *)
(* whole number of native vectors (the block comment of lines 260-262:     *)
(* on the right boundary only one vector can be relied on); the padding    *)
(* holds arbitrary samples.  An access outside the storage is logged,      *)
(* reads as 0 and stores nothing.                                          *)

Stride(xs, nl) == RoundUpTo(xs, nl)
Junk == 9    \* a non-zero content of memory that was never written

PlaneAt(pl, r, c) ==
  IF r \in DOMAIN pl THEN (IF c \in DOMAIN pl[r] THEN pl[r][c] ELSE 0) ELSE 0

\* a const float*: into row r of the input plane at column off, or into mem
RowPtr(r, x) == [mem |-> "row", row |-> r, off |-> x]
ScratchPtr(o) == [mem |-> "scratch", row |-> 0, off |-> o]

\* the arguments of one FastGaussianVertical call; in is the plane behind
\* the accessor in
VArgs(g, nl, xs, ys, pl) ==
  [rg |-> g, lanes |-> nl, xsize |-> xs, ysize |-> ys, in |-> pl]

\* lines 313-327: Set (scalar target) or LoadDup128 of rg.d1 + 4 i, rg.n2 + 4 i
CoefVec(nl, arr, i) == [j \in 0 .. nl - 1 |-> arr[4 * i + (j % 4)]]

\* lines 381-390
Unroll(nl) == Max(kCacheLineLanes \div nl, 4)
FastPace(nl) == Unroll(nl) * nl
ScratchFloats(nl) == FastPace(nl) * (1 + 3 * kRingBufferLen)
ZeroOff == 0
\* mutant: ring_buffer = zero, the zero block not skipped
RingBufferOff_AtZero(nl) == ZeroOff
RingBufferOff(nl) == ZeroOff + FastPace(nl)

\* mutant: the y[n-2] term added instead of subtracted
RowUpdate_Plus(n2, d1, sum, y_n1, y_n2) ==
  MulAdd(n2, sum, Add(NegMulSub(d1, y_n1, [j \in DOMAIN y_n1 |-> 0]), y_n2))

\* line 290: y[n] of one mode from the step's input and the two previous outputs
RowUpdate(n2, d1, sum, y_n1, y_n2) == MulAdd(n2, sum, NegMulSub(d1, y_n1, y_n2))

\* lines 276-278
RingSlot(n, back) == BitAnd(SizeT(n - back), kRingBufferMask)

(* VerticalBlock, lines 263-300.  The stores of the call are collected in  *)
(* st (offset in mem -> value, later stores over earlier ones) and its     *)
(* loads see them; out collects the vectors handed to the Output functor.  *)

MemAt(scr, st, o) ==
  IF o \in DOMAIN st THEN st[o] ELSE IF o \in DOMAIN scr THEN scr[o] ELSE 0

LoadAt(nl, pl, scr, st, pos, offset) ==
  [j \in 0 .. nl - 1 |->
     IF pos.mem = "row" THEN PlaneAt(pl, pos.row, pos.off + offset + j)
                        ELSE MemAt(scr, st, pos.off + offset + j)]

\* lines 233-258: the input functors, as the list of their pointers
SingleInput(pos) == <<pos>>
TwoInputs(pos1, pos2) == <<pos1, pos2>>
Input(nl, pl, scr, st, input, offset) ==
  IF Len(input) = 1
    THEN LoadAt(nl, pl, scr, st, input[1], offset)
    ELSE Add(LoadAt(nl, pl, scr, st, input[1], offset),
             LoadAt(nl, pl, scr, st, input[2], offset))

StoreVec(st, off, v) == [o \in off .. off + Len(v) - 1 |-> v[o - off + 1]] @@ st
AsSeq(nl, v) == [j \in 1 .. nl |-> v[j - 1]]

\* the offsets in mem an input functor loads from (through a pointer into
\* mem, that is through zero) at the given offset
ScratchLoads(nl, input, offset) ==
  { input[k].off + offset + j : k \in { k \in 1 .. Len(input) : input[k].mem = "scratch" },
                                j \in 0 .. nl - 1 }

\* lines 280-297: one iteration of the loop; acc.idx_vec is the loop
\* variable, acc.ld the ring-buffer offsets loaded and acc.zr the offsets
\* loaded through zero
BlockIter(kv, a, input, n, rb, scr, acc) ==
  LET nl == a.lanes
      kLanes == kv * nl
      idx_vec == acc.idx_vec
      ybase == [i \in Modes |-> rb + i * kLanes * kRingBufferLen]
      n_0 == RingSlot(n, 0)
      n_1 == RingSlot(n, 1)
      n_2 == RingSlot(n, 2)
      sum == Input(nl, a.in, scr, acc.st, input, idx_vec)
      src1 == [i \in Modes |-> ybase[i] + kLanes * n_1 + idx_vec]
      src2 == [i \in Modes |-> ybase[i] + kLanes * n_2 + idx_vec]
      y == [i \in Modes |->
              AsSeq(nl,
                RowUpdate(CoefVec(nl, a.rg.n2, i), CoefVec(nl, a.rg.d1, i), sum,
                  [j \in 0 .. nl - 1 |-> MemAt(scr, acc.st, src1[i] + j)],
                  [j \in 0 .. nl - 1 |-> MemAt(scr, acc.st, src2[i] + j)]))]
      dst == [i \in Modes |-> ybase[i] + kLanes * n_0 + idx_vec]
  IN [st  |-> StoreVec(StoreVec(StoreVec(acc.st, dst[0], y[0]), dst[1], y[1]),
                       dst[2], y[2]),
      out |-> [c \in idx_vec .. idx_vec + nl - 1 |->
                 y[0][c - idx_vec + 1] + (y[1][c - idx_vec + 1] + y[2][c - idx_vec + 1])]
              @@ acc.out,
      ld  |-> acc.ld \cup { src1[i] + j : i \in Modes, j \in 0 .. nl - 1 }
                     \cup { src2[i] + j : i \in Modes, j \in 0 .. nl - 1 },
      zr  |-> acc.zr \cup ScratchLoads(nl, input, idx_vec),
      idx_vec |-> idx_vec + nl]

RECURSIVE BlockLoop(_, _, _, _, _, _, _)
BlockLoop(kv, a, input, n, rb, scr, acc) ==
  IF acc.idx_vec < kv * a.lanes
    THEN BlockLoop(kv, a, input, n, rb, scr,
                   BlockIter(kv, a, input, n, rb, scr, acc))
    ELSE acc

\* the call: [st, out], the stores into mem and the output vectors
VerticalBlock(kv, a, input, n, rb, scr) ==
  BlockLoop(kv, a, input, n, rb, scr,
            [st |-> <<>>, out |-> <<>>, ld |-> {}, zr |-> {}, idx_vec |-> 0])

\* mem after the stores st (a store outside the allocation stores nothing)
Stored(scr, st) ==
  [o \in DOMAIN scr |-> IF o \in DOMAIN st THEN st[o] ELSE scr[o]]

\* mutant: the ring buffer is not cleared at the start of a strip
MemsetRing_None(kv, nl, rb, scr) == scr

\* lines 331-332: the number of floats memset clears
MemsetLen(kv, nl) == 3 * kv * nl * kRingBufferLen

\* lines 331-332
MemsetRing(kv, nl, rb, scr) ==
  [o \in DOMAIN scr |->
     IF o >= rb /\ o < rb + MemsetLen(kv, nl) THEN 0 ELSE scr[o]]

\* lines 387-391: the fresh allocation with its zero block cleared
AllocScratch(nl) ==
  [o \in 0 .. ScratchFloats(nl) - 1 |->
     IF o >= ZeroOff /\ o < ZeroOff + FastPace(nl) THEN 0 ELSE Junk]

----------------------------------------------------------------------------
(* FastGaussianVertical (lines 377-412) and VerticalStrip (lines 303-373). *)
(* The call's locals and the memory it writes are a record s:              *)
(*   pc       position: entry, full (line 394/398/402), rem (line 408),    *)
(*            warmup, output, interior, bottom (the loops of               *)
(*            VerticalStrip), done, failed                                 *)
(*   x, n, kv x of FastGaussianVertical; n and kVectors of VerticalStrip   *)
(*   scratch  AlignedMemory mem as an array of floats                      *)
(*   out      the output plane: <<row, column>> -> value, elements stored  *)
(*   rows     row indices passed to the accessors: in, out, pre(fetch)     *)
(*   cols     column offsets loaded from (rd) / stored to (wr) rows        *)
(*   strips   the VerticalStrip calls made: <<x, columns>>                 *)
(*   hist     the stores into mem of the last two VerticalBlock calls of   *)
(*            the current strip, latest first: [n, st]                     *)
(*   acc      offsets in mem accessed during the current strip: ld (ring   *)
(*            buffer loads), zr (loads through zero), st (stores), set     *)
(*            (cleared by memset)                                          *)

NoAccess == [ld |-> {}, zr |-> {}, st |-> {}, set |-> {}]

V_Idle ==
  [pc |-> "idle", x |-> 0, n |-> 0, kv |-> 0, scratch |-> <<>>, out |-> <<>>,
   rows |-> [in |-> {}, out |-> {}, pre |-> {}],
   cols |-> [rd |-> {}, wr |-> {}],
   strips |-> <<>>,
   hist |-> <<>>,
   acc |-> NoAccess]

V_Entry == [V_Idle EXCEPT !.pc = "entry"]

\* lines 387-392: AlignedMemory::Create succeeds
AllocEnabled(s) == s.pc = "entry"
Alloc(a, s) == [s EXCEPT !.scratch = AllocScratch(a.lanes), !.x = 0, !.pc = "full"]

\* mutant: a second allocation, which can fail, before the remainder strips
AllocFailEnabled_Late(s) == s.pc \in {"entry", "rem"}

\* lines 387-388: AlignedMemory::Create fails, JXL_ASSIGN_OR_RETURN returns
AllocFailEnabled(s) == s.pc = "entry"
AllocFail(a, s) == [s EXCEPT !.pc = "failed"]

\* lines 329-335: VerticalStrip<kv> called at column s.x
StripBegin(a, s, kv) ==
  [s EXCEPT !.scratch = MemsetRing(kv, a.lanes, RingBufferOff(a.lanes), s.scratch),
            !.kv = kv,
            !.n = -a.rg.radius + 1,
            !.strips = Append(s.strips, <<s.x, kv * a.lanes>>),
            !.hist = <<>>,
            !.acc = [NoAccess EXCEPT
                       !.set = RingBufferOff(a.lanes) ..
                               RingBufferOff(a.lanes) + MemsetLen(kv, a.lanes) - 1],
            !.pc = "warmup"]

\* mutant: a full-width strip is started whenever columns are left
FullCond_NoRoom(a, s) == s.x < a.xsize

\* lines 393-404 (an unroll other than 4, 8, 16 is JXL_UNREACHABLE and does
\* not occur for the lane counts 1 .. 16)
FullCond(a, s) == s.x + FastPace(a.lanes) <= a.xsize
FullStripEnabled(a, s) ==
  s.pc = "full" /\ Unroll(a.lanes) \in {4, 8, 16} /\ FullCond(a, s)
FullStrip(a, s) == StripBegin(a, s, Unroll(a.lanes))
FullExitEnabled(a, s) ==
  s.pc = "full" /\ Unroll(a.lanes) \in {4, 8, 16} /\ ~FullCond(a, s)
FullExit(a, s) == [s EXCEPT !.pc = "rem"]

\* lines 408-410
RemCond(a, s) == s.x < a.xsize
RemStripEnabled(a, s) == s.pc = "rem" /\ RemCond(a, s)
RemStrip(a, s) == StripBegin(a, s, 1)

\* line 411
ReturnEnabled(a, s) == s.pc = "rem" /\ ~RemCond(a, s)
Return(a, s) == [s EXCEPT !.pc = "done"]

\* the columns one VerticalBlock of the current strip loads or stores in a row
BlockCols(a, s) == s.x .. s.x + s.kv * a.lanes - 1

\* One VerticalBlock call of the current strip: input from the rows inRows
\* (through in(row) + x) and, when fromZero, from the zero block; the output
\* stored to out(n) + x when store; preRows are the rows prefetched.
Block(a, s, inRows, fromZero, store, preRows) ==
  LET ptrs == [k \in 1 .. Len(inRows) |-> RowPtr(inRows[k], s.x)]
      input == IF fromZero THEN Append(ptrs, ScratchPtr(ZeroOff)) ELSE ptrs
      blk == VerticalBlock(s.kv, a, input, s.n, RingBufferOff(a.lanes), s.scratch)
      ins == { inRows[k] : k \in 1 .. Len(inRows) }
  IN [s EXCEPT
        !.scratch = Stored(s.scratch, blk.st),
        !.out = IF store
                  THEN [rc \in { <<s.n, s.x + c>> : c \in DOMAIN blk.out } |->
                          blk.out[rc[2] - s.x]] @@ s.out
                  ELSE s.out,
        !.rows = [in  |-> s.rows.in \cup ins,
                  out |-> IF store THEN s.rows.out \cup {s.n} ELSE s.rows.out,
                  pre |-> s.rows.pre \cup preRows],
        !.cols = [rd |-> IF ins = {} THEN s.cols.rd
                                     ELSE s.cols.rd \cup BlockCols(a, s),
                  wr |-> IF store THEN s.cols.wr \cup BlockCols(a, s)
                                  ELSE s.cols.wr],
        !.hist = SubSeq(<<[n |-> s.n, st |-> blk.st]>> \o s.hist, 1,
                        Min(2, Len(s.hist) + 1)),
        !.acc = [s.acc EXCEPT !.ld = @ \cup blk.ld,
                              !.zr = @ \cup blk.zr,
                              !.st = @ \cup DOMAIN blk.st],
        !.n = s.n + 1]

\* lines 336-342
WarmupEnabled(a, s) == s.pc = "warmup" /\ s.n < 0
Warmup(a, s) ==
  LET bottom == SizeT(s.n + a.rg.radius - 1)
  IN IF bottom < a.ysize THEN Block(a, s, <<bottom>>, FALSE, FALSE, {})
                         ELSE Block(a, s, <<>>, TRUE, FALSE, {})
WarmupExitEnabled(a, s) == s.pc = "warmup" /\ ~(s.n < 0)
WarmupExit(a, s) == [s EXCEPT !.pc = "output", !.n = 0]

\* lines 345-350
OutputCond(a, s) == SizeT(s.n) < Min(a.rg.radius + 1, a.ysize)
OutputEnabled(a, s) == s.pc = "output" /\ OutputCond(a, s)
Output(a, s) ==
  LET bottom == SizeT(s.n + a.rg.radius - 1)
  IN IF bottom < a.ysize THEN Block(a, s, <<bottom>>, FALSE, TRUE, {})
                         ELSE Block(a, s, <<>>, TRUE, TRUE, {})
OutputExitEnabled(a, s) == s.pc = "output" /\ ~OutputCond(a, s)
OutputExit(a, s) == [s EXCEPT !.pc = "interior"]

\* mutant: the interior loop bound without kPrefetchRows
InteriorRowCond_NoPrefetchMargin(a, s) ==
  s.n < SSizeT(SizeT(a.ysize - a.rg.radius + 1))

\* lines 353-362
InteriorRowCond(a, s) ==
  s.n < SSizeT(SizeT(a.ysize - a.rg.radius + 1 - kPrefetchRows))
InteriorRowEnabled(a, s) == s.pc = "interior" /\ InteriorRowCond(a, s)
\* mutant: the interior rows load the bottom neighbour only
InteriorRow_SingleInput(a, s) ==
  LET top == SizeT(s.n - a.rg.radius - 1)
      bottom == SizeT(s.n + a.rg.radius - 1)
  IN Block(a, s, <<bottom>>, FALSE, TRUE,
           {SizeT(top + kPrefetchRows), SizeT(bottom + kPrefetchRows)})

InteriorRow(a, s) ==
  LET top == SizeT(s.n - a.rg.radius - 1)
      bottom == SizeT(s.n + a.rg.radius - 1)
  IN Block(a, s, <<top, bottom>>, FALSE, TRUE,
           {SizeT(top + kPrefetchRows), SizeT(bottom + kPrefetchRows)})
InteriorRowExitEnabled(a, s) == s.pc = "interior" /\ ~InteriorRowCond(a, s)
InteriorRowExit(a, s) == [s EXCEPT !.pc = "bottom"]

\* lines 365-372
BottomCond(a, s) == SizeT(s.n) < a.ysize
BottomEnabled(a, s) == s.pc = "bottom" /\ BottomCond(a, s)
Bottom(a, s) ==
  LET top == SizeT(s.n - a.rg.radius - 1)
      bottom == SizeT(s.n + a.rg.radius - 1)
  IN IF bottom < a.ysize THEN Block(a, s, <<top, bottom>>, FALSE, TRUE, {})
                         ELSE Block(a, s, <<top>>, TRUE, TRUE, {})

\* mutant: x advances by fast_pace after a remainder strip too
StripReturn_FastPace(a, s) ==
  [s EXCEPT !.x = s.x + FastPace(a.lanes),
            !.pc = IF s.kv = 1 THEN "rem" ELSE "full"]

\* VerticalStrip returns; x += fast_pace (lines 394-402) or x += Lanes(df)
\* (line 408)
StripReturnEnabled(a, s) == s.pc = "bottom" /\ ~BottomCond(a, s)
StripReturn(a, s) ==
  [s EXCEPT !.x = IF s.kv = 1 THEN s.x + a.lanes ELSE s.x + FastPace(a.lanes),
            !.pc = IF s.kv = 1 THEN "rem" ELSE "full"]

\* the step after a successful allocation, by position
VStep(a, s) ==
  CASE FullStripEnabled(a, s) -> FullStrip(a, s)
    [] FullExitEnabled(a, s) -> FullExit(a, s)
    [] RemStripEnabled(a, s) -> RemStrip(a, s)
    [] ReturnEnabled(a, s) -> Return(a, s)
    [] WarmupEnabled(a, s) -> Warmup(a, s)
    [] WarmupExitEnabled(a, s) -> WarmupExit(a, s)
    [] OutputEnabled(a, s) -> Output(a, s)
    [] OutputExitEnabled(a, s) -> OutputExit(a, s)
    [] InteriorRowEnabled(a, s) -> InteriorRow(a, s)
    [] InteriorRowExitEnabled(a, s) -> InteriorRowExit(a, s)
    [] BottomEnabled(a, s) -> Bottom(a, s)
    [] StripReturnEnabled(a, s) -> StripReturn(a, s)

RECURSIVE VRun(_, _)
VRun(a, s) == IF s.pc \in {"done", "failed"} THEN s ELSE VRun(a, VStep(a, s))

\* the whole call, to its return; allocated: whether AlignedMemory::Create
\* succeeds
FastGaussianVertical(a, allocated) ==
  IF allocated THEN VRun(a, Alloc(a, V_Entry)) ELSE AllocFail(a, V_Entry)

----------------------------------------------------------------------------
\* FastGaussian is not running: no input plane, no row tasks
PoolIdle ==
  /\ inp = <<>>
  /\ task = <<>>
  /\ b_pc = "idle"
  /\ foot = <<>>

----------------------------------------------------------------------------
(* FastGaussianVertical run one step at a time *)

VA == VArgs(rg, lanes, xsize, ysize, temp)

V_Alloc ==
  /\ AllocEnabled(vs)
  /\ vs' = Alloc(VA, vs)
  /\ UNCHANGED <<temp, cfgvars, hvars, pvars>>

V_AllocFail ==
  /\ AllocFailEnabled(vs)
  /\ vs' = AllocFail(VA, vs)
  /\ UNCHANGED <<temp, cfgvars, hvars, pvars>>

V_FullStrip ==
  /\ FullStripEnabled(VA, vs)
  /\ vs' = FullStrip(VA, vs)
  /\ UNCHANGED <<temp, cfgvars, hvars, pvars>>

V_FullExit ==
  /\ FullExitEnabled(VA, vs)
  /\ vs' = FullExit(VA, vs)
  /\ UNCHANGED <<temp, cfgvars, hvars, pvars>>

V_RemStrip ==
  /\ RemStripEnabled(VA, vs)
  /\ vs' = RemStrip(VA, vs)
  /\ UNCHANGED <<temp, cfgvars, hvars, pvars>>

V_Return ==
  /\ ReturnEnabled(VA, vs)
  /\ vs' = Return(VA, vs)
  /\ UNCHANGED <<temp, cfgvars, hvars, pvars>>

V_Warmup ==
  /\ WarmupEnabled(VA, vs)
  /\ vs' = Warmup(VA, vs)
  /\ UNCHANGED <<temp, cfgvars, hvars, pvars>>

V_WarmupExit ==
  /\ WarmupExitEnabled(VA, vs)
  /\ vs' = WarmupExit(VA, vs)
  /\ UNCHANGED <<temp, cfgvars, hvars, pvars>>

V_Output ==
  /\ OutputEnabled(VA, vs)
  /\ vs' = Output(VA, vs)
  /\ UNCHANGED <<temp, cfgvars, hvars, pvars>>

V_OutputExit ==
  /\ OutputExitEnabled(VA, vs)
  /\ vs' = OutputExit(VA, vs)
  /\ UNCHANGED <<temp, cfgvars, hvars, pvars>>

V_Interior ==
  /\ InteriorRowEnabled(VA, vs)
  /\ vs' = InteriorRow(VA, vs)
  /\ UNCHANGED <<temp, cfgvars, hvars, pvars>>

V_InteriorExit ==
  /\ InteriorRowExitEnabled(VA, vs)
  /\ vs' = InteriorRowExit(VA, vs)
  /\ UNCHANGED <<temp, cfgvars, hvars, pvars>>

V_Bottom ==
  /\ BottomEnabled(VA, vs)
  /\ vs' = Bottom(VA, vs)
  /\ UNCHANGED <<temp, cfgvars, hvars, pvars>>

V_StripReturn ==
  /\ StripReturnEnabled(VA, vs)
  /\ vs' = StripReturn(VA, vs)
  /\ UNCHANGED <<temp, cfgvars, hvars, pvars>>

NextV ==
  \/ V_Alloc
  \/ V_AllocFail
  \/ V_FullStrip
  \/ V_FullExit
  \/ V_RemStrip
  \/ V_Return
  \/ V_Warmup
  \/ V_WarmupExit
  \/ V_Output
  \/ V_OutputExit
  \/ V_Interior
  \/ V_InteriorExit
  \/ V_Bottom
  \/ V_StripReturn

LaneCounts == {1, 2, 4, 8, 16}

\* the design of the column-strip runs: radius 2, so that on the one-row
\* plane every strip has a warmup step and an output step whose bottom
\* neighbour is out of bounds (read through zero)
ColsDesign ==
  CreateRecursiveGaussian(2, [i \in Modes |-> <<1, 2, 1>>[i + 1]],
                             [i \in Modes |-> <<-1, 1, 0>>[i + 1]])

\* the data columns of a given length with at most MaxWeight non-zero samples
ColumnData(len) ==
  { v \in [0 .. len - 1 -> SampleValues] :
      Cardinality({ r \in 0 .. len - 1 : v[r] # 0 }) <= MaxWeight }

(* The column-strip runs: every lane count and every xsize up to MaxXsize  *)
(* on a plane of one row.                                                  *)
InitVCols ==
  /\ rg = ColsDesign
  /\ lanes \in LaneCounts
  /\ xsize \in 1 .. MaxXsize
  /\ ysize = 1
  /\ temp = [r \in 0 .. ysize - 1 |->
               [c \in 0 .. Stride(xsize, lanes) - 1 |-> (r + c) % 2]]

(* The row-loop runs: every design, every ysize up to MaxYsize, two       *)
(* columns on the scalar and on a 4-lane target; column c of the plane is  *)
(* the data column rotated by c rows.                                      *)
InitVRows ==
  /\ rg \in Designs
  /\ lanes \in {1, 4}
  /\ xsize = 2
  /\ ysize \in 1 .. MaxYsize
  /\ \E col \in ColumnData(ysize) :
       temp = [r \in 0 .. ysize - 1 |->
                 [c \in 0 .. Stride(xsize, lanes) - 1 |-> col[(r + c) % ysize]]]

InitV ==
  /\ InitVCols \/ InitVRows
  /\ h_in = <<>>
  /\ hs = H_Init(1)
  /\ h_pc = "idle"
  /\ vs = V_Entry
  /\ PoolIdle

SpecV == InitV /\ [][NextV]_vars

----------------------------------------------------------------------------
(* FastGaussian1D run one loop iteration at a time *)

H_Left ==
  /\ h_pc = "left"
  /\ LeftCond(rg, HLanes(lanes), xsize, hs)
  /\ hs' = LeftBody(rg, HLanes(lanes), xsize, h_in, hs)
  /\ UNCHANGED <<h_in, h_pc, cfgvars, vvars, pvars>>

H_Broadcast ==
  /\ h_pc = "left"
  /\ ~LeftCond(rg, HLanes(lanes), xsize, hs)
  /\ hs' = BroadcastPrev(HLanes(lanes), hs)
  /\ h_pc' = "interior"
  /\ UNCHANGED <<h_in, cfgvars, vvars, pvars>>

H_Interior ==
  /\ h_pc = "interior"
  /\ InteriorCond(rg, xsize, hs)
  /\ hs' = InteriorBody(rg, HLanes(lanes), xsize, h_in, hs)
  /\ UNCHANGED <<h_in, h_pc, cfgvars, vvars, pvars>>

H_InteriorExit ==
  /\ h_pc = "interior"
  /\ ~InteriorCond(rg, xsize, hs)
  /\ h_pc' = "right"
  /\ UNCHANGED <<h_in, hs, cfgvars, vvars, pvars>>

H_Right ==
  /\ h_pc = "right"
  /\ RightCond(xsize, hs)
  /\ hs' = RightBody(rg, HLanes(lanes), xsize, h_in, hs)
  /\ UNCHANGED <<h_in, h_pc, cfgvars, vvars, pvars>>

H_Return ==
  /\ h_pc = "right"
  /\ ~RightCond(xsize, hs)
  /\ h_pc' = "done"
  /\ UNCHANGED <<h_in, hs, cfgvars, vvars, pvars>>

(* The horizontal kernel on one row: any design, any row of 1 .. MaxRowLen  *)
(* samples, scalar target (1 lane) or a vector target (4 lanes).           *)
InitH ==
  /\ rg \in Designs
  /\ lanes \in {1, 4}
  /\ xsize \in 1 .. MaxRowLen
  /\ ysize = 1
  /\ h_in \in [0 .. xsize - 1 -> SampleValues]
  /\ hs = H_Enter(rg, HLanes(lanes))
  /\ h_pc = "left"
  /\ temp = <<>>
  /\ vs = V_Idle
  /\ PoolIdle

NextH ==
  \/ H_Left
  \/ H_Broadcast
  \/ H_Interior
  \/ H_InteriorExit
  \/ H_Right
  \/ H_Return

SpecH == InitH /\ [][NextH]_vars

----------------------------------------------------------------------------
(* FastGaussian (lines 546-555) and FastGaussianHorizontal (lines 529-542) *)
(* on a worker pool.  RunOnPool and ThreadPool are not part of these       *)
(* sources: the pool runs every task index of [0, ysize) exactly once, on  *)
(* at most NumThreads threads at a time, in any order, and RunOnPool       *)
(* returns once every task has returned.                                   *)

Running == { y \in DOMAIN task : task[y] = "running" }

\* line 550: FastGaussian calls FastGaussianHorizontal, which hands the
\* ysize row tasks to the pool (line 539)
B_CallHorizontal ==
  /\ b_pc = "start"
  /\ b_pc' = "pool"
  /\ UNCHANGED <<inp, task, foot, cfgvars, hvars, vvars>>

\* the pool starts the task of row y on a free thread
TaskStart(y) ==
  /\ b_pc = "pool"
  /\ task[y] = "pending"
  /\ Cardinality(Running) < NumThreads
  /\ task' = [task EXCEPT ![y] = "running"]
  /\ UNCHANGED <<inp, b_pc, foot, cfgvars, hvars, vvars>>

\* mutant: the row task also accumulates the first sample of the next temp
\* row (state shared between tasks)
process_line_SharedRow(g, nl, xs, in, tmp, y) ==
  [tmp EXCEPT ![y] =
     [c \in 0 .. xs - 1 |->
        FastGaussian1D(g, HLanes(nl), xs, in[y]).out[c]
          + tmp[(y + 1) % Cardinality(DOMAIN tmp)][0]] @@ tmp[y]]

\* lines 532-537: process_line of row y, temp row y from inp row y
process_line(g, nl, xs, in, tmp, y) ==
  [tmp EXCEPT ![y] = FastGaussian1D(g, HLanes(nl), xs, in[y]).out @@ tmp[y]]

\* mutant: every task is handed the first temp row
OutRow_First(t) == 0

\* lines 534-535: the rows behind in(y) and out(y) of task t (y = task)
InRow(t) == t
OutRow(t) == t

\* lines 532-537: the float addresses <<plane, row, column>> the task reads
\* and writes: FastGaussian1D on the pointers in(y) and out(y)
TaskFootprint(g, nl, xs, in, t) ==
  LET r == FastGaussian1D(g, HLanes(nl), xs, in[InRow(t)])
  IN [rd |-> { <<"in", InRow(t), i>> : i \in r.rd },
      wr |-> { <<"temp", OutRow(t), r.wr[k]>> : k \in 1 .. Len(r.wr) }]

TaskFinish(y) ==
  /\ task[y] = "running"
  /\ temp' = process_line(rg, lanes, xsize, inp, temp, y)
  /\ task' = [task EXCEPT ![y] = "done"]
  /\ foot' = LET f == TaskFootprint(rg, lanes, xsize, inp, y)
             IN [foot EXCEPT ![y] = [runs |-> @.runs + 1,
                                     rd |-> @.rd \cup f.rd,
                                     wr |-> @.wr \cup f.wr]]
  /\ UNCHANGED <<inp, b_pc, vs, cfgvars, hvars>>

\* RunOnPool returns: every task has returned
PoolDrained == \A y \in DOMAIN task : task[y] = "done"

\* lines 539-541: RunOnPool returns, then FastGaussianHorizontal returns true
B_HorizontalReturn ==
  /\ b_pc = "pool"
  /\ PoolDrained
  /\ b_pc' = "horizontal_done"
  /\ UNCHANGED <<inp, task, foot, cfgvars, hvars, vvars>>

\* mutant: the vertical pass is called as soon as the row tasks are handed
\* to the pool
VerticalMayStart_Early == b_pc \in {"pool", "horizontal_done"}

\* lines 550-552: the vertical pass is called after FastGaussianHorizontal
\* has returned without error
VerticalMayStart == b_pc = "horizontal_done"

\* lines 551-554: FastGaussianVertical on temp, to its return
B_CallVertical ==
  /\ VerticalMayStart
  /\ \E allocated \in BOOLEAN :
       vs' = FastGaussianVertical(VArgs(rg, lanes, xsize, ysize, temp), allocated)
  /\ b_pc' = IF vs'.pc = "done" THEN "done" ELSE "failed"
  /\ UNCHANGED <<inp, task, foot, temp, cfgvars, hvars>>

\* what memory that was never written may hold: the temp plane's rows,
\* padding included, before the horizontal pass
Uninitialized == {0, Junk}

\* the planes of ys rows and xs columns with at most MaxWeight non-zero samples
InputPlanes(xs, ys) ==
  { pl \in [0 .. ys - 1 -> [0 .. xs - 1 -> SampleValues]] :
      Cardinality({ rc \in (0 .. ys - 1) \X (0 .. xs - 1) : pl[rc[1]][rc[2]] # 0 })
        <= MaxWeight }

(* FastGaussian on planes of up to MaxBlurRows x MaxBlurCols, scalar and   *)
(* 4-lane targets; temp and the padding hold memory never written.         *)
InitBlur ==
  /\ rg \in Designs
  /\ lanes \in {1, 4}
  /\ xsize \in 1 .. MaxBlurCols
  /\ ysize \in 1 .. MaxBlurRows
  /\ inp \in InputPlanes(xsize, ysize)
  /\ task = [y \in 0 .. ysize - 1 |-> "pending"]
  /\ foot = [y \in 0 .. ysize - 1 |-> [runs |-> 0, rd |-> {}, wr |-> {}]]
  /\ b_pc = "start"
  /\ \E u \in Uninitialized :
       temp = [r \in 0 .. ysize - 1 |-> [c \in 0 .. Stride(xsize, lanes) - 1 |-> u]]
  /\ vs = V_Idle
  /\ h_in = <<>>
  /\ hs = H_Init(1)
  /\ h_pc = "idle"

NextBlur ==
  \/ B_CallHorizontal
  \/ \E y \in 0 .. ysize - 1 : TaskStart(y)
  \/ \E y \in 0 .. ysize - 1 : TaskFinish(y)
  \/ B_HorizontalReturn
  \/ B_CallVertical

SpecBlur == InitBlur /\ [][NextBlur]_vars

----------------------------------------------------------------------------
(* The reference zero-padded recursion of claim C4 *)

RefX(in, xs, m) == IF m >= 0 /\ m < xs THEN in[m] ELSE 0

\* <<y_k[m], y_k[m-1]>> of mode i
RECURSIVE RefPair(_, _, _, _, _)
RefPair(g, in, xs, i, m) ==
  IF m < -g.radius + 1
    THEN <<0, 0>>
    ELSE LET p == RefPair(g, in, xs, i, m - 1)
         IN << g.n2[4 * i] * (RefX(in, xs, m - g.radius - 1)
                              + RefX(in, xs, m + g.radius - 1))
               - g.d1[4 * i] * p[1] - p[2],
               p[1] >>

RefY(g, in, xs, i, m) == RefPair(g, in, xs, i, m)[1]

RefOut(g, in, xs, m) ==
  RefY(g, in, xs, 0, m) + RefY(g, in, xs, 1, m) + RefY(g, in, xs, 2, m)

----------------------------------------------------------------------------
(* Claims about FastGaussian1D, checked under SpecH *)

C10_LengthPreserved ==
  /\ hs.rd \subseteq 0 .. xsize - 1
  /\ \A k \in 1 .. Len(hs.wr) : hs.wr[k] \in 0 .. xsize - 1
  /\ \A k, m \in 1 .. Len(hs.wr) : hs.wr[k] = hs.wr[m] => k = m
  /\ h_pc = "done" => /\ { hs.wr[k] : k \in 1 .. Len(hs.wr) } = 0 .. xsize - 1
                       /\ DOMAIN hs.out = 0 .. xsize - 1

\* a finished row whose outputs came from all three phases: the left loop
\* stored index 0, the unrolled loop stored a whole vector, the right loop
\* stored the last index, and both ends of the input were read
C10_Witness ==
  /\ h_pc = "done"
  /\ HLanes(lanes) = 4
  /\ Len(hs.wr) = xsize
  /\ xsize >= FirstAligned(rg, 4) + rg.radius + 3
  /\ {0, xsize - 1} \subseteq hs.rd

----------------------------------------------------------------------------
(* Claims about FastGaussianVertical, checked under SpecV *)

InStrip == vs.pc \in {"warmup", "output", "interior", "bottom"}

\* the strips that cover column c
Covering(c) ==
  { k \in 1 .. Len(vs.strips) :
      vs.strips[k][1] <= c /\ c < vs.strips[k][1] + vs.strips[k][2] }

\* C1: no column of [0, xsize) is covered by two strips, and at return
\* every column of [0, xsize) is covered by exactly one strip.
C1_EveryColumnOnce ==
  /\ \A c \in 0 .. xsize - 1 : Cardinality(Covering(c)) <= 1
  /\ vs.pc = "done" => \A c \in 0 .. xsize - 1 : Cardinality(Covering(c)) = 1

\* a finished call that ran full-width strips and kVectors = 1 strips on an
\* xsize that is not a multiple of the lane count
C1_Witness ==
  /\ vs.pc = "done"
  /\ xsize % lanes # 0
  /\ \E k \in 1 .. Len(vs.strips) : vs.strips[k][2] = FastPace(lanes)
  /\ \E k \in 1 .. Len(vs.strips) : vs.strips[k][2] = lanes

\* C3: a failed call has stored no element of the output plane, and once
\* an output element is stored no step makes the call fail.
C3_FailsBeforeOutput ==
  /\ [](vs.pc = "failed" => vs.out = <<>> /\ vs.cols.wr = {} /\ vs.rows.out = {})
  /\ [][vs.out # <<>> => vs'.pc # "failed"]_vars

\* the allocation has failed and the call has returned the error
C3_Witness == vs.pc = "failed" /\ vs.scratch = <<>>

\* C7 as stated: a full-width strip spans exactly one 64-byte cache line.
C7_OneCacheLine ==
  (InStrip /\ vs.kv = Unroll(lanes)) => vs.kv * lanes * SizeofFloat = 64

\* C8: every row index passed to the accessors in and out, the prefetched
\* rows included, lies in [0, ysize).
C8_RowsInPlane ==
  (vs.rows.in \cup vs.rows.out \cup vs.rows.pre) \subseteq 0 .. ysize - 1

\* a finished call whose interior loop ran, so rows were prefetched, up to
\* the last row of the plane
C8_Witness ==
  /\ vs.pc = "done"
  /\ ysize - 1 \in vs.rows.pre
  /\ vs.rows.out = 0 .. ysize - 1

\* C9 as stated: every column offset loaded from or stored to a row lies in
\* [0, xsize).
C9_ColumnsInRow == (vs.cols.rd \cup vs.cols.wr) \subseteq 0 .. xsize - 1

\* C9 amended: every column offset loaded from or stored to a row lies in
\* [0, RoundUpTo(xsize, lanes)), the row padded to whole native vectors.
C9_ColumnsInPaddedRow ==
  (vs.cols.rd \cup vs.cols.wr) \subseteq 0 .. RoundUpTo(xsize, lanes) - 1

\* a finished call on an xsize smaller than one native vector, and one on
\* an xsize that is no multiple of it, both having touched the padding
C9_Witness ==
  /\ vs.pc = "done"
  /\ xsize % lanes # 0
  /\ RoundUpTo(xsize, lanes) - 1 \in vs.cols.rd \cap vs.cols.wr

\* column c of the input plane, zero outside [0, ysize)
ColAt(c, r) == IF r >= 0 /\ r < ysize THEN temp[r][c] ELSE 0

\* mem at ring slot of step m, mode i, column offset c of the current strip
RingAt(i, m, c) ==
  vs.scratch[RingBufferOff(lanes) + i * (vs.kv * lanes) * kRingBufferLen
             + (vs.kv * lanes) * (m % kRingBufferLen) + c]

\* the value the ring buffer holds as y[m]: what step m stored, 0 before
\* the strip's first step
YAt(i, m, c) == IF m >= -rg.radius + 1 THEN RingAt(i, m, c) ELSE 0

\* the per-row update of C6 / its amended form, for the step last made
\* (step vs.n - 1), every mode and every column of the strip; sign is the
\* sign of the y[n-2] term
RowUpdateHolds(sign) ==
  (InStrip /\ vs.n - 1 >= -rg.radius + 1) =>
    \A i \in Modes : \A c \in 0 .. vs.kv * lanes - 1 :
      LET m == vs.n - 1
          sum == ColAt(vs.x + c, m - rg.radius - 1) + ColAt(vs.x + c, m + rg.radius - 1)
      IN YAt(i, m, c) = rg.n2[4 * i] * sum - rg.d1[4 * i] * YAt(i, m - 1, c)
                        + sign * YAt(i, m - 2, c)

\* C6 as stated: y[n] = n2[k] sum - d1[k] y[n-1] + y[n-2].
C6_UpdatePlus == RowUpdateHolds(1)

\* C6 amended: y[n] = n2[k] sum - d1[k] y[n-1] - y[n-2].
C6_UpdateMinus == RowUpdateHolds(-1)

\* a step was made whose y[n-2] and y[n-1] were both non-zero
C6_Witness ==
  /\ InStrip
  /\ vs.n - 3 >= -rg.radius + 1
  /\ \E i \in Modes : YAt(i, vs.n - 3, 0) # 0 /\ YAt(i, vs.n - 2, 0) # 0
                       /\ rg.d1[4 * i] # 0

\* C5: at return, every column c < xsize of the output plane is what
\* FastGaussian1D computes from column c of the input taken as a row of
\* length ysize.
C5_SameFilter ==
  vs.pc = "done" =>
    \A c \in 0 .. xsize - 1 :
      LET row == [r \in 0 .. ysize - 1 |-> temp[r][c]]
          h == FastGaussian1D(rg, HLanes(lanes), ysize, row)
      IN \A r \in 0 .. ysize - 1 :
           <<r, c>> \in DOMAIN vs.out /\ r \in DOMAIN h.out
           /\ vs.out[<<r, c>>] = h.out[r]

\* a finished call on a 4-lane target whose interior row loop ran (so the
\* horizontal kernel's unrolled loop runs on the same length), with a
\* non-zero output
C5_Witness ==
  /\ vs.pc = "done"
  /\ lanes = 4
  /\ vs.rows.pre # {}
  /\ \E rc \in DOMAIN vs.out : vs.out[rc] # 0

----------------------------------------------------------------------------
(* Claims about FastGaussian, checked under SpecBlur *)

\* C2: every temp row the vertical pass has read (or prefetched) belongs to
\* a row task that has completed, and the vertical pass has started only
\* when all ysize row tasks are done.
C2_VerticalAfterHorizontal ==
  /\ \A y \in vs.rows.in \cup vs.rows.pre : y \in DOMAIN task /\ task[y] = "done"
  /\ vs.pc # "idle" => \A y \in 0 .. ysize - 1 : task[y] = "done"

\* the vertical pass has run to its end over a plane of several rows, all
\* of which it read
C2_Witness ==
  /\ b_pc = "done"
  /\ ysize >= 2
  /\ vs.rows.in = 0 .. ysize - 1

----------------------------------------------------------------------------
\* The planes a FastGaussian call is a function of its arguments alone:
\* temp rows by FastGaussian1D of the input rows, out by the vertical pass
\* over those rows (padding cleared).
TempRowOf(g, nl, xs, row) ==
  LET o == FastGaussian1D(g, HLanes(nl), xs, row).out
  IN Vec([c \in 0 .. Stride(xs, nl) - 1 |-> IF c < xs THEN o[c] ELSE 0])

TempOf(g, nl, xs, ys, in) ==
  Vec([r \in 0 .. ys - 1 |-> TempRowOf(g, nl, xs, in[r])])

OutOf(g, nl, xs, ys, in) ==
  FastGaussianVertical(VArgs(g, nl, xs, ys, TempOf(g, nl, xs, ys, in)), TRUE).out

\* C11: a finished FastGaussian call leaves in the temp and output planes
\* (rows [0, ysize), columns [0, xsize)) values that are a function of the
\* coefficients, the dimensions and the input plane only: whatever order
\* the pool ran the row tasks in, on however many threads (up to
\* NumThreads), and whatever the unwritten memory held.
C11_Deterministic ==
  b_pc = "done" =>
    LET t == TempOf(rg, lanes, xsize, ysize, inp)
        o == OutOf(rg, lanes, xsize, ysize, inp)
    IN \A r \in 0 .. ysize - 1 : \A c \in 0 .. xsize - 1 :
         /\ temp[r][c] = t[r][c]
         /\ <<r, c>> \in DOMAIN vs.out
         /\ vs.out[<<r, c>>] = o[<<r, c>>]

\* a finished call on a plane of several rows with a non-zero sample, whose
\* rows are narrower than a vector and were allocated holding non-zero
\* memory, so that the vertical pass read unwritten padding
C11_Witness ==
  /\ b_pc = "done"
  /\ ysize >= 2
  /\ lanes > xsize
  /\ \E r \in 0 .. ysize - 1 : \E c \in 0 .. xsize - 1 : inp[r][c] # 0
  /\ \E r \in 0 .. ysize - 1 : temp[r][Stride(xsize, lanes) - 1] = Junk

----------------------------------------------------------------------------
\* C12: the task of row y reads only input row y (columns [0, xsize)) and
\* writes only temp row y; no address written by one task is read or
\* written by another; no task index runs twice, and once the horizontal
\* pass has returned every task has run once and every temp row was written
\* by exactly one task.
C12_TasksDisjoint ==
  /\ \A y \in DOMAIN foot :
       /\ foot[y].runs <= 1
       /\ foot[y].rd \subseteq { <<"in", y, c>> : c \in 0 .. xsize - 1 }
       /\ foot[y].wr \subseteq { <<"temp", y, c>> : c \in 0 .. xsize - 1 }
  /\ \A y1, y2 \in DOMAIN foot :
       y1 # y2 => foot[y1].wr \cap (foot[y2].rd \cup foot[y2].wr) = {}
  /\ b_pc \in {"horizontal_done", "done", "failed"} =>
       /\ \A y \in 0 .. ysize - 1 : foot[y].runs = 1
       /\ \A r \in 0 .. ysize - 1 :
            Cardinality({ y \in DOMAIN foot :
                            \E a \in foot[y].wr : a[2] = r }) = 1

\* two tasks were in flight at once: row 0 has been written while the task
\* of row 1 is still running
C12_Witness ==
  /\ ysize >= 2
  /\ xsize >= 2
  /\ task[0] = "done" /\ foot[0].wr # {} /\ foot[0].rd # {}
  /\ task[1] = "running"

----------------------------------------------------------------------------
(* Claims about the scratch memory of the vertical pass, under SpecV *)

\* the offset in mem of the ring-buffer cell of mode i, slot sl, column c of
\* the current strip (kLanes = kVectors * Lanes)
SlotOff(i, sl, c) ==
  RingBufferOff(lanes) + i * (vs.kv * lanes) * kRingBufferLen
    + (vs.kv * lanes) * sl + c

\* C13: in a strip, before the VerticalBlock step n = vs.n (negative n
\* included): the slots n & 3, (n-1) & 3, (n-2) & 3 are pairwise distinct;
\* for k = 1, 2 the slot (n-k) & 3 holds, for every mode and column, what
\* step n-k of this strip stored, or 0 when n-k precedes the strip's first
\* step -N+1; and every ring-buffer cell loaded during the strip lies in
\* the area the strip cleared at its start, so nothing an earlier strip
\* wrote is read.
C13_RingBuffer ==
  InStrip =>
    /\ Cardinality({ BitAnd(SizeT(vs.n - k), 3) : k \in 0 .. 2 }) = 3
    /\ \A k \in 1 .. 2 : \A i \in Modes : \A c \in 0 .. vs.kv * lanes - 1 :
         LET o == SlotOff(i, BitAnd(SizeT(vs.n - k), 3), c)
         IN IF vs.n - k >= -rg.radius + 1
              THEN /\ Len(vs.hist) >= k
                   /\ vs.hist[k].n = vs.n - k
                   /\ o \in DOMAIN vs.hist[k].st
                   /\ vs.scratch[o] = vs.hist[k].st[o]
              ELSE vs.scratch[o] = 0
    /\ vs.acc.ld \subseteq vs.acc.set

\* in a strip that is not the first of the call, the two previous steps,
\* the earlier one at a negative n, both stored non-zero values that the
\* ring buffer holds for the step to come
C13_Witness ==
  /\ InStrip
  /\ Len(vs.strips) >= 2
  /\ Len(vs.hist) = 2
  /\ vs.hist[2].n < 0
  /\ \E o \in DOMAIN vs.hist[1].st : vs.hist[1].st[o] # 0
  /\ \E o \in DOMAIN vs.hist[2].st : vs.hist[2].st[o] # 0

\* the zero block and the 3 * 4 * fast_pace floats after it
ZeroBlock == 0 .. FastPace(lanes) - 1
RingArea == FastPace(lanes) .. FastPace(lanes) + 3 * 4 * FastPace(lanes) - 1

\* C14: once mem is allocated, the ring area lies inside it; every
\* ring-buffer load, store and memset of a strip (kVectors = unroll or 1)
\* stays inside the ring area; the zero block holds zeros throughout, and
\* every load through zero stays inside the zero block (and so returns 0).
C14_ScratchFrame ==
  vs.pc \notin {"idle", "entry", "failed"} =>
    /\ ZeroBlock \cup RingArea \subseteq DOMAIN vs.scratch
    /\ vs.acc.ld \cup vs.acc.st \cup vs.acc.set \subseteq RingArea
    /\ vs.acc.zr \subseteq ZeroBlock
    /\ \A o \in ZeroBlock : vs.scratch[o] = 0

\* a remainder strip (kVectors = 1) after a full strip, in which a
\* neighbour was read through zero and non-zero values were stored into the
\* ring buffer
C14_Witness ==
  /\ InStrip
  /\ vs.kv = 1
  /\ Len(vs.strips) >= 2
  /\ vs.strips[1][2] = FastPace(lanes)
  /\ vs.acc.zr # {}
  /\ \E o \in vs.acc.st : vs.scratch[o] # 0

====
